---- MODULE Spec2Model ----
(***************************************************************************)
(* Elevate: the rule-based insights engine (frontend/src/lib/aiInsights.ts) *)
(* over the locally stored games and training sessions.                     *)
(*                                                                          *)
(* JavaScript numbers are IEEE-754 binary64 values.  The engine divides,    *)
(* subtracts and compares them against thresholds, so the model keeps the   *)
(* rounding of every arithmetic step: a Number is a record                  *)
(*   [k, s, hi, lo, e]   k = "fin" | "inf" | "nan",  s = sign (0 or 1),     *)
(* whose finite value is (-1)^s * (hi * 2^27 + lo) * 2^e with a 53-bit      *)
(* significand (2^52 <= hi * 2^27 + lo < 2^53) or zero (hi = lo = 0).       *)
(* Exponents stay far inside the binary64 range for the magnitudes the      *)
(* model draws (small non-negative integers), so overflow and subnormals    *)
(* do not arise.                                                            *)
(***************************************************************************)
EXTENDS Integers, Sequences, FiniteSets, TLC

(***************************************************************************)
(* Unsigned integers of up to 58 bits as two limbs: hi * Base + lo.         *)
(***************************************************************************)
Base == 2^27

Big(h, l) == [hi |-> h, lo |-> l]

BigZero == Big(0, 0)

BigOne == Big(0, 1)

BigIsZero(a) == a.hi = 0 /\ a.lo = 0

BigGe(a, b) == a.hi > b.hi \/ (a.hi = b.hi /\ a.lo >= b.lo)

BigAdd(a, b) ==
  LET l == a.lo + b.lo
  IN  IF l >= Base THEN Big(a.hi + b.hi + 1, l - Base) ELSE Big(a.hi + b.hi, l)

\* a - b for a >= b
BigSub(a, b) ==
  LET l == a.lo - b.lo
  IN  IF l < 0 THEN Big(a.hi - b.hi - 1, l + Base) ELSE Big(a.hi - b.hi, l)

BigShl(a) == BigAdd(a, a)

BigOdd(a) == a.lo % 2 = 1

\* The number of bits of x, 0 <= x < 2^31
BitLen(x) ==
  IF x >= 2^30 THEN 31
  ELSE CHOOSE k \in 0..30 : x < 2^k /\ (k = 0 \/ x >= 2^(k - 1))

BigLen(a) == IF a.hi > 0 THEN 27 + BitLen(a.hi) ELSE BitLen(a.lo)

\* a * 2^n, the product below 2^58
BigShlN(a, n) ==
  IF n = 0 THEN a
  ELSE IF n < 27 THEN Big(a.hi * 2^n + (a.lo \div 2^(27 - n)), (a.lo % 2^(27 - n)) * 2^n)
  ELSE Big(a.lo * 2^(n - 27), 0)

\* <<floor(a / 2^n), sticky>>: sticky is 1 iff st = 1 or a non-zero bit was shifted out
BigShrSticky(a, n, st) ==
  IF n = 0 THEN <<a, st>>
  ELSE IF n < 27
    THEN <<Big(a.hi \div 2^n, ((a.hi % 2^n) * 2^(27 - n)) + (a.lo \div 2^n)),
           IF a.lo % 2^n # 0 THEN 1 ELSE st>>
  ELSE IF n < 58
    THEN <<Big(0, a.hi \div 2^(n - 27)),
           IF a.lo # 0 \/ a.hi % 2^(n - 27) # 0 THEN 1 ELSE st>>
  ELSE <<BigZero, IF BigIsZero(a) THEN st ELSE 1>>

Two52 == Big(2^25, 0)

Two53 == Big(2^26, 0)

(***************************************************************************)
(* binary64 values and round-to-nearest, ties-to-even                       *)
(***************************************************************************)
NaN == [k |-> "nan", s |-> 0, hi |-> 0, lo |-> 0, e |-> 0]

Inf(sign) == [k |-> "inf", s |-> sign, hi |-> 0, lo |-> 0, e |-> 0]

Zero(sign) == [k |-> "fin", s |-> sign, hi |-> 0, lo |-> 0, e |-> 0]

Fin(sign, m, ex) == [k |-> "fin", s |-> sign, hi |-> m.hi, lo |-> m.lo, e |-> ex]

Mant(x) == Big(x.hi, x.lo)

IsZero(x) == x.k = "fin" /\ x.hi = 0 /\ x.lo = 0

\* n in [2^53, 2^54) carries the 53 significand bits and the rounding bit;
\* st = 1 iff the exact value has non-zero bits below the rounding bit.
Round54(sign, n, ex, st) ==
  LET m  == Big(n.hi \div 2, (n.lo \div 2) + ((n.hi % 2) * (Base \div 2)))
      up == BigOdd(n) /\ (st = 1 \/ BigOdd(m))
      m2 == IF up THEN BigAdd(m, BigOne) ELSE m
  IN  IF m2 = Two53 THEN Fin(sign, Two52, ex + 2) ELSE Fin(sign, m2, ex + 1)

\* The binary64 nearest to (-1)^sign * (n + f) * 2^ex, 0 <= f < 1, f > 0 iff st = 1.
\* n < 2^53 is only passed with st = 0 (an exact value).
Normalize(sign, n, ex, st) ==
  LET len == BigLen(n)
  IN  IF len = 0 THEN Zero(sign)
      ELSE IF len > 54
        THEN LET sh == BigShrSticky(n, len - 54, st)
             IN  Round54(sign, sh[1], ex + (len - 54), sh[2])
      ELSE Round54(sign, BigShlN(n, 54 - len), ex - (54 - len), st)

\* Number(n) for an integer |n| < 2^26: exact
FromInt(n) ==
  LET a == IF n < 0 THEN -n ELSE n
      k == BitLen(a) - 1
  IN  IF n = 0 THEN Zero(0)
      ELSE Fin(IF n < 0 THEN 1 ELSE 0, Big(a * 2^(25 - k), 0), k - 52)

\* a / b for integers 0 <= a, b < 2^13 held as Numbers: both are scaled to 17 bits,
\* a2 / b1 lies in [1, 2), and the 54-bit quotient is taken 13 bits at a time.
DivInt(a, b) ==
  IF b = 0 THEN (IF a = 0 THEN NaN ELSE Inf(0))
  ELSE IF a = 0 THEN Zero(0)
  ELSE LET la == BitLen(a)
           lb == BitLen(b)
           a1 == a * 2^(17 - la)
           b1 == b * 2^(17 - lb)
           t  == IF a1 >= b1 THEN 0 ELSE 1
           a2 == IF t = 0 THEN a1 ELSE 2 * a1
           r0 == a2 - b1
           c1 == (r0 * 2^13) \div b1
           r1 == (r0 * 2^13) % b1
           c2 == (r1 * 2^13) \div b1
           r2 == (r1 * 2^13) % b1
           c3 == (r2 * 2^13) \div b1
           r3 == (r2 * 2^13) % b1
           c4 == (r3 * 2^13) \div b1
           r4 == (r3 * 2^13) % b1
           c5 == (r4 * 2) \div b1
           r5 == (r4 * 2) % b1
       IN  Round54(0, Big(2^26 + (c1 * 2^13) + c2, (c3 * 2^14) + (c4 * 2) + c5),
                   ((la - lb) - t) - 53, IF r5 = 0 THEN 0 ELSE 1)

\* <<floor(r * 2^(i-1) / d), scaled remainder>> by binary long division, r < 2d.
\* (q.hi is never negative: the test makes each step evaluate its partial quotient.)
RECURSIVE LongDiv(_, _, _, _)
LongDiv(r, d, q, i) ==
  IF i = 0 \/ q.hi < 0 THEN <<q, r>>
  ELSE LET bit == BigGe(r, d)
           r2  == IF bit THEN BigSub(r, d) ELSE r
       IN  LongDiv(BigShl(r2), d, BigAdd(BigShl(q), IF bit THEN BigOne ELSE BigZero), i - 1)

XorSign(a, b) == IF a = b THEN 0 ELSE 1

\* x / y
NumDiv(x, y) ==
  IF x.k = "nan" \/ y.k = "nan" THEN NaN
  ELSE IF x.k = "inf" THEN (IF y.k = "inf" THEN NaN ELSE Inf(XorSign(x.s, y.s)))
  ELSE IF y.k = "inf" THEN Zero(XorSign(x.s, y.s))
  ELSE IF IsZero(y) THEN (IF IsZero(x) THEN NaN ELSE Inf(XorSign(x.s, y.s)))
  ELSE IF IsZero(x) THEN Zero(XorSign(x.s, y.s))
  ELSE LET qr == LongDiv(Mant(x), Mant(y), BigZero, 56)
       IN  Normalize(XorSign(x.s, y.s), qr[1], (x.e - y.e) - 55,
                     IF BigIsZero(qr[2]) THEN 0 ELSE 1)

\* |x| < |y| for finite x, y
MagLt(x, y) ==
  IF IsZero(y) THEN FALSE
  ELSE IF IsZero(x) THEN TRUE
  ELSE x.e < y.e \/ (x.e = y.e /\ ~BigGe(Mant(x), Mant(y)))

\* <<n, st>>: 8 * (|x| - |y|) = (n + f) * 2^x.e with 0 <= f < 1, f > 0 iff st = 1,
\* for |x| >= |y| whose exponents differ by 5 or more
FarDifference(x, y) ==
  LET sh == BigShrSticky(BigShlN(Mant(y), 3), x.e - y.e, 0)
      n  == BigSub(BigShlN(Mant(x), 3), sh[1])
  IN  <<IF sh[2] = 1 THEN BigSub(n, BigOne) ELSE n, sh[2]>>

\* |x| - |y| for finite non-zero |x| >= |y|, with the sign given
MagSub(sign, x, y) ==
  IF x.e - y.e <= 4
  THEN Normalize(sign, BigSub(BigShlN(Mant(x), x.e - y.e), Mant(y)), y.e, 0)
  ELSE LET df == FarDifference(x, y) IN Normalize(sign, df[1], x.e - 3, df[2])

\* |x| + |y| for finite non-zero |x| >= |y|, with the sign given
MagAdd(sign, x, y) ==
  IF x.e - y.e <= 4
  THEN Normalize(sign, BigAdd(BigShlN(Mant(x), x.e - y.e), Mant(y)), y.e, 0)
  ELSE LET sh == BigShrSticky(BigShlN(Mant(y), 3), x.e - y.e, 0)
       IN  Normalize(sign, BigAdd(BigShlN(Mant(x), 3), sh[1]), x.e - 3, sh[2])

Neg(x) == [x EXCEPT !.s = 1 - x.s]

\* x + y
NumAdd(x, y) ==
  IF x.k = "nan" \/ y.k = "nan" THEN NaN
  ELSE IF x.k = "inf" THEN (IF y.k = "inf" /\ y.s # x.s THEN NaN ELSE x)
  ELSE IF y.k = "inf" THEN y
  ELSE IF IsZero(x) THEN (IF IsZero(y) THEN Zero(IF x.s = 1 /\ y.s = 1 THEN 1 ELSE 0) ELSE y)
  ELSE IF IsZero(y) THEN x
  ELSE IF x.s = y.s THEN (IF MagLt(x, y) THEN MagAdd(x.s, y, x) ELSE MagAdd(x.s, x, y))
  ELSE IF MagLt(x, y) THEN MagSub(y.s, y, x)
  ELSE IF MagLt(y, x) THEN MagSub(x.s, x, y)
  ELSE Zero(0)

\* x - y
NumSub(x, y) == NumAdd(x, Neg(y))

\* x * 100: the exact product 25 * m * 2^(e + 2), rounded
NumMul100(x) ==
  IF x.k # "fin" \/ IsZero(x) THEN x
  ELSE LET m == Mant(x)
       IN  Normalize(x.s, BigAdd(BigAdd(BigShlN(m, 4), BigShlN(m, 3)), m), x.e + 2, 0)

\* x < y (false when either is NaN)
NumLt(x, y) ==
  IF x.k = "nan" \/ y.k = "nan" THEN FALSE
  ELSE IF x.k = "inf" THEN x.s = 1 /\ ~(y.k = "inf" /\ y.s = 1)
  ELSE IF y.k = "inf" THEN y.s = 0
  ELSE IF IsZero(x) /\ IsZero(y) THEN FALSE
  ELSE IF IsZero(x) THEN y.s = 0
  ELSE IF IsZero(y) THEN x.s = 1
  ELSE IF x.s = 1 /\ y.s = 0 THEN TRUE
  ELSE IF x.s = 0 /\ y.s = 1 THEN FALSE
  ELSE IF x.s = 0 THEN MagLt(x, y)
  ELSE MagLt(y, x)

\* x > y
NumGt(x, y) == NumLt(y, x)

\* Math.abs(x)
MathAbs(x) == [x EXCEPT !.s = 0]

\* ToBoolean(x): false for NaN, +0 and -0
Truthy(x) == x.k # "nan" /\ ~IsZero(x)

\* The magnitude of the integer nearest to (-1)^sign * n * 2^ex, a half rounded
\* towards +infinity; the result is below 2^30.
HalfUpMagnitude(sign, n, ex) ==
  IF ex >= 0 THEN LET v == BigShlN(n, ex) IN (v.hi * Base) + v.lo
  ELSE LET sh == BigShrSticky(n, (-ex) - 1, 0)
           h  == (sh[1].hi * Base) + sh[1].lo
       IN  IF sign = 0 \/ sh[2] = 1 THEN (h + 1) \div 2 ELSE h \div 2

\* A number as a summary holds it: an integer (k = "fin"), an infinity (k = "inf",
\* v = 1 or -1) or NaN
IntNum(kind, val) == [k |-> kind, v |-> val]

\* Math.round(x): floor(x + 0.5), computed exactly
MathRound(x) ==
  IF x.k = "nan" THEN IntNum("nan", 0)
  ELSE IF x.k = "inf" THEN IntNum("inf", IF x.s = 0 THEN 1 ELSE -1)
  ELSE LET mag == HalfUpMagnitude(x.s, Mant(x), x.e)
       IN  IntNum("fin", IF x.s = 0 THEN mag ELSE -mag)

\* x.toFixed(1) for a finite x >= 0, in tenths: the integer n with n / 10 nearest
\* to the exact value of x, the larger n on a tie
ToFixed1(x) ==
  LET m == Mant(x)
  IN  HalfUpMagnitude(0, BigAdd(BigShlN(m, 3), BigShl(m)), x.e)

(***************************************************************************)
(* Dates.  A record's date is the string of an <input type="date">,         *)
(* 'YYYY-MM-DD', held as [y, m, d] with m = 1..12.  Instants are counted in *)
(* hours since 0:00 UTC of 1 January 1970; the local time zone is UTC.       *)
(***************************************************************************)
IsLeap(y) == (y % 4 = 0 /\ y % 100 # 0) \/ y % 400 = 0

\* month is 0-based, as Date.prototype.getMonth() counts
DaysInMonth(y, month) ==
  IF month = 1 THEN (IF IsLeap(y) THEN 29 ELSE 28)
  ELSE IF month \in {3, 5, 8, 10} THEN 30 ELSE 31

\* ECMAScript DayFromYear(y): the day number of 1 January of y, for y >= 1970
DayFromYear(y) ==
  ((365 * (y - 1970)) + ((y - 1969) \div 4) + ((y - 1601) \div 400)) - ((y - 1901) \div 100)

RECURSIVE DaysBeforeMonth(_, _)
DaysBeforeMonth(y, month) ==
  IF month = 0 THEN 0 ELSE DaysBeforeMonth(y, month - 1) + DaysInMonth(y, month - 1)

\* ECMAScript MakeDay(year, month, date): the month may lie outside 0..11 and the
\* date outside the month; both carry over
MakeDay(y, month, date) ==
  LET ym == y + ((month - (month % 12)) \div 12)
      mn == month % 12
  IN  DayFromYear(ym) + DaysBeforeMonth(ym, mn) + (date - 1)

\* new Date('YYYY-MM-DD'): midnight UTC of that day
ParseDate(date) == MakeDay(date.y, date.m - 1, date.d) * 24

\* A missing or unparsable date string: new Date(...) is then an Invalid Date,
\* whose time value is NaN
NoDate == [y |-> 0, m |-> 0, d |-> 0]

IsValidDate(date) == date.m \in 1..12 /\ date.d \in 1..DaysInMonth(date.y, date.m - 1)

\* periodStart with the weekly day of the month kept from going below 1
periodStart_DayFloored(period, now) ==
  IF period = "weekly"
  THEN (MakeDay(now.y, now.month, IF now.d - 7 < 1 THEN 1 ELSE now.d - 7) * 24) + now.h
  ELSE (MakeDay(now.y, now.month - 1, now.d) * 24) + now.h

\* now = [y, month (0-based), d, h]: the reading of new Date() at the call
periodStart(period, now) ==
  IF period = "weekly"
  THEN (MakeDay(now.y, now.month, now.d - 7) * 24) + now.h
  ELSE (MakeDay(now.y, now.month - 1, now.d) * 24) + now.h

NowTime(now) == (MakeDay(now.y, now.month, now.d) * 24) + now.h

(***************************************************************************)
(* State: the stored games, sessions and goals (gameStatsStorage,           *)
(* trainingStorage, goalsStorage, in insertion order; they are the first    *)
(* player's), the latest call of generateInsights by Generate (last is      *)
(* empty, or holds the call's period, clock reading and result), the latest *)
(* rendering of the dashboard figures (board, empty or one record), the     *)
(* stored summaries (summariesStorage) and the calls generateSummary has    *)
(* made of generateInsights, each with its arguments before and after the   *)
(* call and its result (calls, a history).  Storing another game or session *)
(* ends the call and the rendering.  The two clock readings a call takes,   *)
(* of now and of periodStart, are the same instant.  view is empty, or      *)
(* holds the arrays the mounted Dashboard component keeps in its state and  *)
(* what its latest render showed; records are stored from other pages, so   *)
(* storing one leaves no dashboard mounted.  auth is empty while the app    *)
(* is not loaded in the browser, or holds the AuthProvider's state, the      *)
(* stored token, the progress of initAuth and the route shown.              *)
(***************************************************************************)
VARIABLES games, sessions, goals, last, board, summaries, calls, view, auth

(***************************************************************************)
(* Records.  A game keeps the fields generateInsights reads; a training     *)
(* session's optional metrics are Undefined when the form field was left    *)
(* empty.                                                                   *)
(***************************************************************************)
Undefined == -1

GameStat(date, points, assists, turnovers) ==
  [date |-> date, points |-> points, assists |-> assists, turnovers |-> turnovers]

TrainingSession(date, ft, tp) ==
  [date |-> date, metrics |-> [freeThrowPercentage |-> ft, threePointPercentage |-> tp]]

\* ToBoolean of an optional numeric metric: undefined and 0 are falsy
TruthyMetric(v) == v # Undefined /\ v # 0

HasFT(s) == TruthyMetric(s.metrics.freeThrowPercentage)

Has3PT(s) == TruthyMetric(s.metrics.threePointPercentage)

PointsOf(arr) == [n \in 1..Len(arr) |-> arr[n].points]

TurnoversOf(arr) == [n \in 1..Len(arr) |-> arr[n].turnovers]

AssistsOf(arr) == [n \in 1..Len(arr) |-> arr[n].assists]

\* s.metrics.freeThrowPercentage || 0 of each session
FTOf(arr) ==
  [n \in 1..Len(arr) |-> IF TruthyMetric(arr[n].metrics.freeThrowPercentage)
                         THEN arr[n].metrics.freeThrowPercentage ELSE 0]

\* s.metrics.threePointPercentage || 0 of each session
ThreePTOf(arr) ==
  [n \in 1..Len(arr) |-> IF TruthyMetric(arr[n].metrics.threePointPercentage)
                         THEN arr[n].metrics.threePointPercentage ELSE 0]

\* vals.reduce((sum, v) => sum + v, 0) over small integers
RECURSIVE Sum(_)
Sum(vals) == IF Len(vals) = 0 THEN 0 ELSE Head(vals) + Sum(Tail(vals))

\* Math.ceil(n / 2)
CeilHalf(n) == (n + 1) \div 2

\* arr.slice(0, Math.ceil(arr.length / 2))
RecentHalf(arr) == SubSeq(arr, 1, CeilHalf(Len(arr)))

\* arr.slice(Math.ceil(arr.length / 2))
OlderHalf(arr) == SubSeq(arr, CeilHalf(Len(arr)) + 1, Len(arr))

\* The records of a sequence, last to first
Reverse(arr) == [n \in 1..Len(arr) |-> arr[Len(arr) + 1 - n]]

\* the filter handing the kept records back newest-stored first
PeriodFilter_Reversed(arr, start) ==
  Reverse(SelectSeq(arr, LAMBDA r : IsValidDate(r.date) /\ ParseDate(r.date) >= start))

\* games.filter(g => new Date(g.date) >= periodStart), and the same for sessions;
\* an Invalid Date compares false
PeriodFilter(arr, start) ==
  SelectSeq(arr, LAMBDA r : IsValidDate(r.date) /\ ParseDate(r.date) >= start)

Five == FromInt(5)

Three == FromInt(3)

ThirtyFive == FromInt(35)

Two == FromInt(2)

Improvement(metric, change, text) ==
  [metric |-> metric, change |-> MathRound(change),
   description |-> [text |-> text, pct |-> MathRound(change)]]

\* The relative change of the scoring average between the two halves, in percent
PointsChange(periodGames) ==
  LET recentGames == RecentHalf(periodGames)
      olderGames  == OlderHalf(periodGames)
      recentAvg   == DivInt(Sum(PointsOf(recentGames)), Len(recentGames))
      olderAvg    == DivInt(Sum(PointsOf(olderGames)), Len(olderGames))
  IN  NumMul100(NumDiv(NumSub(recentAvg, olderAvg), olderAvg))

\* Points improvement: the entries pushed for 'Points Per Game' (none or one)
PointsImprovement(periodGames) ==
  IF Len(periodGames) >= 2
  THEN LET change == PointsChange(periodGames)
       IN  IF NumGt(MathAbs(change), Five)
           THEN <<Improvement("Points Per Game", change,
                              IF NumGt(change, Zero(0)) THEN "Your scoring improved by"
                              ELSE "Your scoring decreased by")>>
           ELSE <<>>
  ELSE <<>>

\* periodSessions.filter(s => s.metrics.freeThrowPercentage || s.metrics.threePointPercentage)
ShootingSessions(periodSessions) == SelectSeq(periodSessions, LAMBDA s : HasFT(s) \/ Has3PT(s))

\* FTAverage with the shooting filter's predicate and fallback in place of the
\* free-throw ones: a three-point figure stands in where the free-throw one is missing
FTAverage_AnyShootingFigure(half) ==
  LET withAny == SelectSeq(half, LAMBDA s : HasFT(s) \/ Has3PT(s))
      figures == [n \in 1..Len(withAny) |->
                    IF HasFT(withAny[n]) THEN FTOf(withAny)[n] ELSE ThreePTOf(withAny)[n]]
  IN  DivInt(Sum(figures), Len(withAny))

\* The free-throw average of one half: the sum over the sessions with a truthy
\* freeThrowPercentage divided by their number (0 / 0 = NaN when there is none)
FTAverage(half) ==
  LET withFT == SelectSeq(half, HasFT)
  IN  DivInt(Sum(FTOf(withFT)), Len(withFT))

\* Shooting improvement: the entries pushed for 'Free Throw %' (none or one)
ShootingImprovement(shootingSessions) ==
  IF Len(shootingSessions) >= 2
  THEN LET recentFT == FTAverage(RecentHalf(shootingSessions))
           olderFT  == FTAverage(OlderHalf(shootingSessions))
           change   == NumSub(recentFT, olderFT)
       IN  IF Truthy(recentFT) /\ Truthy(olderFT) /\ NumGt(MathAbs(change), Three)
           THEN <<Improvement("Free Throw %", change,
                              IF NumGt(change, Zero(0)) THEN "Your free throw shooting improved by"
                              ELSE "Your free throw percentage dropped")>>
           ELSE <<>>
  ELSE <<>>

\* Insights with the sessions sentence emitted for an empty collection as well
Insights_ZeroSessionsSentence(periodGames, periodSessions) ==
  (IF Len(periodGames) > 0
   THEN << [text |-> IF Len(periodGames) = 1 THEN "You played N game" ELSE "You played N games",
            n |-> Len(periodGames)],
           [text |-> "You averaged N points per game",
            n |-> ToFixed1(DivInt(Sum(PointsOf(periodGames)), Len(periodGames)))] >>
   ELSE <<>>)
  \o
  << [text |-> IF Len(periodSessions) = 1 THEN "You completed N training session"
               ELSE "You completed N training sessions",
      n |-> Len(periodSessions)] >>

\* The narrative sentences: a sentence is [text, n], n the number it interpolates
\* (the average in tenths, as toFixed(1) prints it)
Insights(periodGames, periodSessions) ==
  (IF Len(periodGames) > 0
   THEN << [text |-> IF Len(periodGames) = 1 THEN "You played N game" ELSE "You played N games",
            n |-> Len(periodGames)],
           [text |-> "You averaged N points per game",
            n |-> ToFixed1(DivInt(Sum(PointsOf(periodGames)), Len(periodGames)))] >>
   ELSE <<>>)
  \o
  (IF Len(periodSessions) > 0
   THEN << [text |-> IF Len(periodSessions) = 1 THEN "You completed N training session"
                     ELSE "You completed N training sessions",
            n |-> Len(periodSessions)] >>
   ELSE <<>>)

BallHandling == "Ball handling - work on reducing turnovers through control drills"

Playmaking == "Playmaking - focus on court vision and passing drills"

ThreePointShooting == "Three-point shooting - increase practice volume and focus on form"

\* GameFocusAreas with the two bars included: >= 3 turnovers, <= 2 assists
GameFocusAreas_BarsIncluded(periodGames) ==
  IF Len(periodGames) > 0
  THEN LET avgTurnovers == DivInt(Sum(TurnoversOf(periodGames)), Len(periodGames))
           avgAssists   == DivInt(Sum(AssistsOf(periodGames)), Len(periodGames))
       IN  (IF ~NumLt(avgTurnovers, Three) THEN <<BallHandling>> ELSE <<>>)
           \o (IF ~NumGt(avgAssists, Two) THEN <<Playmaking>> ELSE <<>>)
  ELSE <<>>

GameFocusAreas(periodGames) ==
  IF Len(periodGames) > 0
  THEN LET avgTurnovers == DivInt(Sum(TurnoversOf(periodGames)), Len(periodGames))
           avgAssists   == DivInt(Sum(AssistsOf(periodGames)), Len(periodGames))
       IN  (IF NumGt(avgTurnovers, Three) THEN <<BallHandling>> ELSE <<>>)
           \o (IF NumLt(avgAssists, Two) THEN <<Playmaking>> ELSE <<>>)
  ELSE <<>>

ShootingFocusAreas(shootingSessions) ==
  IF Len(shootingSessions) > 0
  THEN LET with3PT == SelectSeq(shootingSessions, Has3PT)
           avg3PT  == DivInt(Sum(ThreePTOf(with3PT)), Len(with3PT))
       IN  IF Truthy(avg3PT) /\ NumLt(avg3PT, ThirtyFive) THEN <<ThreePointShooting>> ELSE <<>>
  ELSE <<>>

MsgProgress == "You're making great progress! Keep up the hard work and stay focused on your goals."

MsgConsistency == "Consistency is key! Keep showing up and putting in the work - results will follow."

MsgGetStarted == "Ready to get started? Log your games and training to track your progress!"

\* i.change > 0 for the rounded change an entry holds
PositiveChange(i) == (i.change.k = "fin" /\ i.change.v > 0) \/ (i.change.k = "inf" /\ i.change.v = 1)

\* MotivationalMessage without its last branch: the message stays '' when the
\* period holds nothing
MotivationalMessage_NoFallback(improvements, periodGames, periodSessions) ==
  IF Len(improvements) > 0 /\ (\E n \in 1..Len(improvements) : PositiveChange(improvements[n]))
  THEN MsgProgress
  ELSE IF Len(periodGames) > 0 \/ Len(periodSessions) > 0 THEN MsgConsistency
  ELSE ""

\* MotivationalMessage without the test of the entries' direction
MotivationalMessage_AnyImprovement(improvements, periodGames, periodSessions) ==
  IF Len(improvements) > 0
  THEN MsgProgress
  ELSE IF Len(periodGames) > 0 \/ Len(periodSessions) > 0 THEN MsgConsistency
  ELSE MsgGetStarted

MotivationalMessage(improvements, periodGames, periodSessions) ==
  IF Len(improvements) > 0 /\ (\E n \in 1..Len(improvements) : PositiveChange(improvements[n]))
  THEN MsgProgress
  ELSE IF Len(periodGames) > 0 \/ Len(periodSessions) > 0 THEN MsgConsistency
  ELSE MsgGetStarted

\* generateInsights with the improvements array kept outside the function: the
\* entries of the earlier calls stay in it
generateInsights_SharedImprovements(gs, ss, gl, period, now) ==
  LET start            == periodStart(period, now)
      periodGames      == PeriodFilter(gs, start)
      periodSessions   == PeriodFilter(ss, start)
      shootingSessions == ShootingSessions(periodSessions)
      earlier          == IF calls = <<>> THEN <<>> ELSE calls[Len(calls)].result.improvements
      improvements     == earlier \o PointsImprovement(periodGames)
                            \o ShootingImprovement(shootingSessions)
  IN  [insights            |-> Insights(periodGames, periodSessions),
       improvements        |-> improvements,
       focusAreas          |-> GameFocusAreas(periodGames) \o ShootingFocusAreas(shootingSessions),
       motivationalMessage |-> MotivationalMessage(improvements, periodGames, periodSessions)]

\* generateInsights reading the goals it is given: the 'great progress' message
\* also when a goal is completed
generateInsights_GoalAware(gs, ss, gl, period, now) ==
  LET start            == periodStart(period, now)
      periodGames      == PeriodFilter(gs, start)
      periodSessions   == PeriodFilter(ss, start)
      shootingSessions == ShootingSessions(periodSessions)
      improvements     == PointsImprovement(periodGames) \o ShootingImprovement(shootingSessions)
  IN  [insights            |-> Insights(periodGames, periodSessions),
       improvements        |-> improvements,
       focusAreas          |-> GameFocusAreas(periodGames) \o ShootingFocusAreas(shootingSessions),
       motivationalMessage |-> IF \E n \in 1..Len(gl) : gl[n].status = "completed"
                               THEN MsgProgress
                               ELSE MotivationalMessage(improvements, periodGames, periodSessions)]

\* const { games, sessions, goals, period } = data: gl, the goals, is not read again
generateInsights(gs, ss, gl, period, now) ==
  LET start            == periodStart(period, now)
      periodGames      == PeriodFilter(gs, start)
      periodSessions   == PeriodFilter(ss, start)
      shootingSessions == ShootingSessions(periodSessions)
      improvements     == PointsImprovement(periodGames) \o ShootingImprovement(shootingSessions)
  IN  [insights            |-> Insights(periodGames, periodSessions),
       improvements        |-> improvements,
       focusAreas          |-> GameFocusAreas(periodGames) \o ShootingFocusAreas(shootingSessions),
       motivationalMessage |-> MotivationalMessage(improvements, periodGames, periodSessions)]

(***************************************************************************)
(* The dashboard (pages/Dashboard.tsx) over all stored games and sessions,  *)
(* and the shared report's (pages/SharedReport.tsx) own copies of the       *)
(* season figures.                                                          *)
(***************************************************************************)
\* calculateAverage(stat) of the dashboard over the stat's values: the number 0
\* without games, else the text of toFixed(1), held in tenths
calculateAverage(vals) ==
  IF Len(vals) = 0 THEN [type |-> "number", form |-> "0", tenths |-> 0]
  ELSE [type |-> "string", form |-> "toFixed(1)",
        tenths |-> ToFixed1(DivInt(Sum(vals), Len(vals)))]

\* calculateAverage(stat) of the shared report: the text '0' without games
SharedCalculateAverage(vals) ==
  IF Len(vals) = 0 THEN [type |-> "string", form |-> "0", tenths |-> 0]
  ELSE [type |-> "string", form |-> "toFixed(1)",
        tenths |-> ToFixed1(DivInt(Sum(vals), Len(vals)))]

Null == "null"

\* games.reduce((max, game) => game.points > max.points ? game : max): the index
\* of the game the reduction holds after the first n games
RECURSIVE ReduceMax(_, _)
ReduceMax(gs, n) ==
  IF n = 1 THEN 1
  ELSE LET max == ReduceMax(gs, n - 1)
       IN  IF gs[n].points > gs[max].points THEN n ELSE max

\* getPersonalBest() with >= in place of >
getPersonalBest_LastOfTies(gs) ==
  IF Len(gs) = 0 THEN Null
  ELSE gs[CHOOSE n \in 1..Len(gs) :
            /\ \A k \in 1..Len(gs) : gs[k].points <= gs[n].points
            /\ \A k \in (n + 1)..Len(gs) : gs[k].points < gs[n].points]

\* getPersonalBest() without its guard: reduce of an empty array with no initial
\* value throws a TypeError
getPersonalBest_NoGuard(gs) == IF Len(gs) = 0 THEN "TypeError" ELSE gs[ReduceMax(gs, Len(gs))]

\* getPersonalBest(), of the dashboard and of the shared report alike
getPersonalBest(gs) == IF Len(gs) = 0 THEN Null ELSE gs[ReduceMax(gs, Len(gs))]

Twenty == FromInt(20)

Hundred == 100

\* getReadinessScore(): parseFloat of the average's text, / 20 * 100, rounded, at most 100
getReadinessScore(gs) ==
  IF Len(gs) = 0 THEN 0
  ELSE LET avgPoints == DivInt(calculateAverage(PointsOf(gs)).tenths, 10)
           rounded   == MathRound(NumMul100(NumDiv(avgPoints, Twenty))).v
       IN  IF rounded < Hundred THEN rounded ELSE Hundred

\* getActivityScore(): 15 for each game or session dated at or after a week
\* before the clock reading, at most 100
getActivityScore(gs, ss, now) ==
  LET weekAgo == periodStart("weekly", now)
      recentActivities == PeriodFilter(gs, weekAgo) \o PeriodFilter(ss, weekAgo)
  IN  IF Len(recentActivities) * 15 < Hundred THEN Len(recentActivities) * 15 ELSE Hundred

vars == <<games, sessions, goals, last, board, summaries, calls, view, auth>>

Init ==
  /\ games = <<>> /\ sessions = <<>> /\ goals = <<>>
  /\ last = <<>> /\ board = <<>>
  /\ summaries = <<>> /\ calls = <<>>
  /\ view = <<>> /\ auth = <<>>

\* gameStatsStorage.add(stat)
AddGame(g, max) ==
  /\ Len(games) < max
  /\ games' = Append(games, g)
  /\ last' = <<>>
  /\ board' = <<>>
  /\ view' = <<>>
  /\ UNCHANGED <<sessions, goals, summaries, calls, auth>>

\* trainingStorage.add(session)
AddSession(s, max) ==
  /\ Len(sessions) < max
  /\ sessions' = Append(sessions, s)
  /\ last' = <<>>
  /\ board' = <<>>
  /\ view' = <<>>
  /\ UNCHANGED <<games, goals, summaries, calls, auth>>

\* goalsStorage.add(goalData) of a new goal
AddGoal(goal, max) ==
  /\ Len(goals) < max
  /\ goals' = Append(goals, goal)
  /\ UNCHANGED <<games, sessions, last, board, summaries, calls, view, auth>>

\* generateInsights({ games, sessions, goals, period }) evaluated at clock reading now
Generate(period, now) ==
  /\ last' = <<[period |-> period, now |-> now,
                result |-> generateInsights(games, sessions, goals, period, now)]>>
  /\ UNCHANGED <<games, sessions, goals, board, summaries, calls, view, auth>>

\* The dashboard rendered at clock reading now, with the shared report's figures
Dashboard(now) ==
  /\ board' = <<[now           |-> now,
                 average       |-> [points  |-> calculateAverage(PointsOf(games)),
                                    assists |-> calculateAverage(AssistsOf(games))],
                 sharedAverage |-> [points  |-> SharedCalculateAverage(PointsOf(games)),
                                    assists |-> SharedCalculateAverage(AssistsOf(games))],
                 personalBest  |-> getPersonalBest(games),
                 readinessScore |-> getReadinessScore(games),
                 activityScore |-> getActivityScore(games, sessions, now)]>>
  /\ UNCHANGED <<games, sessions, goals, last, summaries, calls, view, auth>>

\* arr.sort(comparator on new Date(r.date).getTime()) of the first n records:
\* the array afterwards, ascending or descending by date; the sort is stable
RECURSIVE SortByDate(_, _, _)
SortByDate(arr, n, descending) ==
  IF n = 0 THEN <<>>
  ELSE LET sorted == SortByDate(arr, n - 1, descending)
           r      == arr[n]
           Ahead(e) == IF descending THEN ParseDate(e.date) >= ParseDate(r.date)
                       ELSE ParseDate(e.date) <= ParseDate(r.date)
       IN  SelectSeq(sorted, Ahead) \o <<r>> \o SelectSeq(sorted, LAMBDA e : ~Ahead(e))

\* arr.slice(0, 3)
FirstThree(arr) == SubSeq(arr, 1, IF Len(arr) < 3 THEN Len(arr) ELSE 3)

\* getPointsChartData(): games.sort(ascending) sorts the array the component holds
getPointsChartData(gs) == SortByDate(gs, Len(gs), FALSE)

\* getRecentGames() and getRecentSessions(): sort(descending) of the array the
\* component holds, of which the first three are shown
getRecent(arr) == SortByDate(arr, Len(arr), TRUE)

\* One render of the Dashboard holding the arrays gs and ss: the personal best is
\* taken first, the points chart sorts gs, the shooting chart filters ss before
\* it sorts, and the recent lists sort gs and ss
RenderDashboard(loaded, gs, ss) ==
  LET personalBest  == getPersonalBest(gs)
      charted       == getPointsChartData(gs)
      recentGames   == getRecent(charted)
      recentSession == getRecent(ss)
  IN  [loaded         |-> loaded,
       games          |-> recentGames,
       sessions       |-> recentSession,
       personalBest   |-> personalBest,
       recentGames    |-> FirstThree(recentGames),
       recentSessions |-> FirstThree(recentSession)]

\* The Dashboard mounts: the effect loads the user's games and sessions into the
\* component's state, and the render the two setState calls cause
Mount ==
  /\ view = <<>>
  /\ view' = <<RenderDashboard([games |-> games, sessions |-> sessions], games, sessions)>>
  /\ UNCHANGED <<games, sessions, goals, last, board, summaries, calls, auth>>

\* The mounted Dashboard renders again
Render ==
  /\ view # <<>>
  /\ view' = <<RenderDashboard(view[1].loaded, view[1].games, view[1].sessions)>>
  /\ UNCHANGED <<games, sessions, goals, last, board, summaries, calls, auth>>

\* A goal as GoalDialog stores it: a new goal is active with currentValue 0
Goal(type, targetValue) ==
  [type |-> type, targetValue |-> targetValue, currentValue |-> 0, status |-> "active"]

\* goalsStorage.update(goal.id, { status: 'completed' }) of the n-th stored goal
MarkComplete(n) ==
  /\ n \in 1..Len(goals)
  /\ goals[n].status = "active"
  /\ goals' = [goals EXCEPT ![n].status = "completed"]
  /\ UNCHANGED <<games, sessions, last, board, summaries, calls, view, auth>>

\* useAuth().user when nobody is logged in
NoUser == "null"

\* The player whose records the stores hold
FirstPlayer == "u1"

\* getAll().filter(r => r.userId === user.id): the stored records are the first
\* player's
OwnedBy(userId, arr) == IF userId = FirstPlayer THEN arr ELSE <<>>

\* The arrays generateInsights was given, as they are when it returns: it reads
\* them with filter, slice, reduce and some, and writes to none of them
ArgumentsAfter_GoalsSettled(gs, ss, gl) ==
  [games |-> gs, sessions |-> ss,
   goals |-> [n \in 1..Len(gl) |-> [gl[n] EXCEPT !.status = "completed"]]]

ArgumentsAfter(gs, ss, gl) == [games |-> gs, sessions |-> ss, goals |-> gl]

\* summariesStorage.add replacing the stored summary of the same owner and period
summariesStorage_add_OnePerPeriod(stored, summary) ==
  Append(SelectSeq(stored, LAMBDA s : ~(s.userId = summary.userId /\ s.period = summary.period)),
         summary)

\* summariesStorage.add(summary): getAll, push, set
summariesStorage_add(stored, summary) == Append(stored, summary)

\* The AISummary generateSummary builds; id stands for crypto.randomUUID()
AISummary(id, userId, period, now, insights) ==
  [id                  |-> id,
   userId              |-> userId,
   period              |-> period,
   startDate           |-> periodStart(period, now),
   endDate             |-> NowTime(now),
   insights            |-> insights.insights,
   improvements        |-> insights.improvements,
   focusAreas          |-> insights.focusAreas,
   motivationalMessage |-> insights.motivationalMessage,
   createdAt           |-> NowTime(now)]

\* generateSummary(period) of the Insights page with userId logged in, at clock
\* reading now
GenerateSummary(userId, period, now, max) ==
  /\ Len(calls) < max
  /\ IF userId = NoUser
     THEN UNCHANGED <<summaries, calls>>
     ELSE LET gs       == OwnedBy(userId, games)
              ss       == OwnedBy(userId, sessions)
              gl       == OwnedBy(userId, goals)
              insights == generateInsights(gs, ss, gl, period, now)
          IN  /\ calls' = Append(calls, [userId |-> userId, period |-> period, now |-> now,
                                         games |-> gs, sessions |-> ss, goals |-> gl,
                                         after |-> ArgumentsAfter(gs, ss, gl),
                                         result |-> insights])
              /\ summaries' = summariesStorage_add(summaries,
                                AISummary(Len(calls) + 1, userId, period, now, insights))
  /\ UNCHANGED <<games, sessions, goals, last, board, view, auth>>

(***************************************************************************)
(* Authentication.  token is what localStorage holds under 'token' and what *)
(* the backend makes of it: "none", "valid" or "invalid".  pc is the place  *)
(* initAuth has reached: "start" (the effect has not run), "me" (awaiting   *)
(* authApi.me), "profile" (awaiting profileApi.get) or "done".  requested   *)
(* is the path the app was loaded on, path the route shown now, redirect    *)
(* the latest Navigate ProtectedRoute rendered, with the provider's state   *)
(* at that moment.  A change of the provider's state renders the route      *)
(* again.                                                                   *)
(***************************************************************************)
ProtectedPaths == {"/profile/create", "/dashboard", "/insights"}

\* the routes wrapped in <ProtectedRoute requireProfile>
RequireProfilePaths == {"/dashboard", "/insights"}

Paths == {"/", "/report/:token"} \cup ProtectedPaths

NoRedirect == [to |-> "none", from |-> "none", isLoading |-> FALSE, token |-> "none"]

\* ProtectedRoute: the path it navigates to, or "children"
ProtectedRoute(isAuthenticated, hasProfile, requireProfile) ==
  IF ~isAuthenticated THEN "/"
  ELSE IF requireProfile /\ ~hasProfile THEN "/profile/create"
  ELSE "children"

\* The router rendering the route of a.path with the provider's value:
\* isAuthenticated: !!user, hasProfile: !!profile
RenderRoute(a) ==
  IF a.path \in ProtectedPaths
  THEN LET out == ProtectedRoute(a.user # Null, a.profile # Null,
                                 a.path \in RequireProfilePaths)
       IN  IF out = "children" THEN a
           ELSE [a EXCEPT !.path = out,
                          !.redirect = [to |-> out, from |-> a.path,
                                        isLoading |-> a.isLoading, token |-> a.token]]
  ELSE a

\* The app is loaded on path with token stored: the provider's initial state
\* (user null, profile null, isLoading true) and the first render
LoadApp(token, path, serverProfile) ==
  /\ auth = <<>>
  /\ auth' = <<RenderRoute([token |-> token, serverProfile |-> serverProfile,
                            user |-> Null, profile |-> Null, isLoading |-> TRUE,
                            pc |-> "start", requested |-> path, path |-> path,
                            redirect |-> NoRedirect])>>
  /\ UNCHANGED <<games, sessions, goals, last, board, summaries, calls, view>>

\* initAuth up to its first await: without a token setIsLoading(false), with
\* one the call of authApi.me
InitAuth ==
  /\ auth # <<>> /\ auth[1].pc = "start"
  /\ auth' = IF auth[1].token = "none"
             THEN <<RenderRoute([auth[1] EXCEPT !.isLoading = FALSE, !.pc = "done"])>>
             ELSE <<[auth[1] EXCEPT !.pc = "me"]>>
  /\ UNCHANGED <<games, sessions, goals, last, board, summaries, calls, view>>

\* authApi.me resolves: setUser(userData), then the call of profileApi.get
MeResolves ==
  /\ auth # <<>> /\ auth[1].pc = "me" /\ auth[1].token = "valid"
  /\ auth' = <<RenderRoute([auth[1] EXCEPT !.user = "user", !.pc = "profile"])>>
  /\ UNCHANGED <<games, sessions, goals, last, board, summaries, calls, view>>

\* authApi.me rejects: removeItem('token'), setIsLoading(false)
MeRejects ==
  /\ auth # <<>> /\ auth[1].pc = "me" /\ auth[1].token = "invalid"
  /\ auth' = <<RenderRoute([auth[1] EXCEPT !.token = "none", !.isLoading = FALSE,
                                           !.pc = "done"])>>
  /\ UNCHANGED <<games, sessions, goals, last, board, summaries, calls, view>>

\* profileApi.get resolves (setProfile) or rejects (no profile yet), then
\* setIsLoading(false)
ProfileSettles ==
  /\ auth # <<>> /\ auth[1].pc = "profile"
  /\ auth' = <<RenderRoute([auth[1] EXCEPT
                    !.profile = IF auth[1].serverProfile THEN "profile" ELSE Null,
                    !.isLoading = FALSE, !.pc = "done"])>>
  /\ UNCHANGED <<games, sessions, goals, last, board, summaries, calls, view>>

\* The visitor follows a link to path
Navigate(path) ==
  /\ auth # <<>> /\ auth[1].path # path
  /\ auth' = <<RenderRoute([auth[1] EXCEPT !.path = path])>>
  /\ UNCHANGED <<games, sessions, goals, last, board, summaries, calls, view>>

\* logout(): setUser(null), setProfile(null), removeItem('token')
Logout ==
  /\ auth # <<>> /\ auth[1].user # Null
  /\ auth' = <<RenderRoute([auth[1] EXCEPT !.user = Null, !.profile = Null,
                                           !.token = "none"])>>
  /\ UNCHANGED <<games, sessions, goals, last, board, summaries, calls, view>>

(***************************************************************************)
(* The inputs the specifications draw.  The clock reads 31 March 2025,      *)
(* 12:00: the weekly window starts on 24 March and the monthly one on       *)
(* 3 March (31 February carried over), both at 12:00.                       *)
(***************************************************************************)
Periods == {"weekly", "monthly"}

Nows == {[y |-> 2025, month |-> 2, d |-> 31, h |-> 12]}

\* The date string of a day of March 2025: 24 to 31 March lie inside both
\* windows, 3 to 23 March inside the monthly window only
March(day) == [y |-> 2025, m |-> 3, d |-> day]

\* after the clock reading
DayFuture == [y |-> 2025, m |-> 4, d |-> 5]

MaxGames == 2

MaxSessions == 2

MaxTrendGames == 4

MaxShootingSessions == 6

MaxWindowGames == 2

MaxWindowSessions == 2

MaxBoardGames == 4

MaxBoardSessions == 3

GameInputs ==
  { GameStat(March(26), 6, 1, 4), GameStat(March(28), 7, 3, 2), GameStat(March(10), 7, 1, 2) }

SessionInputs ==
  { TrainingSession(March(26), 60, Undefined), TrainingSession(March(28), 70, Undefined),
    TrainingSession(March(27), Undefined, 30), TrainingSession(March(28), Undefined, 0),
    TrainingSession(DayFuture, Undefined, 40) }

TrendGameInputs ==
  { GameStat(March(10), 6, 3, 4), GameStat(March(26), 6, 1, 4),
    GameStat(March(27), 0, 1, 2), GameStat(March(28), 7, 3, 2) }

ShootingSessionInputs ==
  { TrainingSession(March(28), 60, Undefined), TrainingSession(March(28), 64, Undefined),
    TrainingSession(March(28), 65, Undefined) }

Next ==
  \/ \E g \in GameInputs : AddGame(g, MaxGames)
  \/ \E s \in SessionInputs : AddSession(s, MaxSessions)
  \/ \E p \in Periods, n \in Nows : Generate(p, n)

Spec == Init /\ [][Next]_vars

\* Games only, for the scoring trend and the game focus areas
NextTrend ==
  \/ \E g \in TrendGameInputs : AddGame(g, MaxTrendGames)
  \/ \E p \in Periods, n \in Nows : Generate(p, n)

SpecTrend == Init /\ [][NextTrend]_vars

\* Free-throw sessions only, for the free-throw trend
NextShooting ==
  \/ \E s \in ShootingSessionInputs : AddSession(s, MaxShootingSessions)
  \/ \E p \in Periods, n \in Nows : Generate(p, n)

SpecShooting == Init /\ [][NextShooting]_vars

\* Clock readings late in a month, in the first week of a month and in the first
\* week of a year, with records dated shortly before them, an undated game and a
\* session without metrics: for the window bounds and for partial input
WindowNows ==
  { [y |-> 2025, month |-> 2, d |-> 31, h |-> 12], [y |-> 2025, month |-> 2, d |-> 5, h |-> 12],
    [y |-> 2025, month |-> 0, d |-> 3, h |-> 12] }

WindowGameInputs ==
  { GameStat(March(1), 6, 1, 4), GameStat([y |-> 2024, m |-> 12, d |-> 30], 7, 3, 2),
    GameStat(NoDate, 7, 3, 2) }

WindowSessionInputs ==
  { TrainingSession(March(1), Undefined, Undefined), TrainingSession(March(4), 60, Undefined) }

NextWindow ==
  \/ \E g \in WindowGameInputs : AddGame(g, MaxWindowGames)
  \/ \E s \in WindowSessionInputs : AddSession(s, MaxWindowSessions)
  \/ \E p \in Periods, n \in WindowNows : Generate(p, n)

SpecWindow == Init /\ [][NextWindow]_vars

\* The dashboard over games that tie for the best score and sessions of the week
BoardGameInputs ==
  { GameStat(March(10), 25, 3, 2), GameStat(March(27), 25, 1, 4),
    GameStat(March(28), 7, 3, 2), GameStat(DayFuture, 6, 1, 2) }

BoardSessionInputs == { TrainingSession(March(28), 60, Undefined) }

NextDashboard ==
  \/ \E g \in BoardGameInputs : AddGame(g, MaxBoardGames)
  \/ \E s \in BoardSessionInputs : AddSession(s, MaxBoardSessions)
  \/ \E n \in Nows : Dashboard(n)

SpecDashboard == Init /\ [][NextDashboard]_vars

(***************************************************************************)
(* Summaries: the first player stores games and goals, marks goals          *)
(* completed, and either player (or nobody) asks the Insights page for a    *)
(* summary.                                                                 *)
(***************************************************************************)
MaxSummaryGames == 2

MaxGoals == 1

MaxSummaries == 3

SummaryGameInputs ==
  { GameStat(March(26), 6, 1, 4), GameStat(March(28), 7, 3, 2) }

GoalInputs == { Goal("weekly", 10) }

Users == {FirstPlayer, "u2", NoUser}

\* The tab of the Insights page the summaries are asked from
SummaryPeriods == {"weekly"}

NextSummaries ==
  \/ \E g \in SummaryGameInputs : AddGame(g, MaxSummaryGames)
  \/ \E goal \in GoalInputs : AddGoal(goal, MaxGoals)
  \/ \E n \in 1..MaxGoals : MarkComplete(n)
  \/ \E userId \in Users, period \in SummaryPeriods, now \in Nows :
       GenerateSummary(userId, period, now, MaxSummaries)

SpecSummaries == Init /\ [][NextSummaries]_vars

(***************************************************************************)
(* Arguments: the first player stores games, sessions and goals, and the    *)
(* Insights page hands them to generateInsights.                            *)
(***************************************************************************)
MaxArgumentGames == 2

MaxArgumentSessions == 1

MaxArgumentCalls == 1

NextArguments ==
  \/ \E g \in SummaryGameInputs : AddGame(g, MaxArgumentGames)
  \/ \E s \in BoardSessionInputs : AddSession(s, MaxArgumentSessions)
  \/ \E goal \in GoalInputs : AddGoal(goal, MaxGoals)
  \/ \E n \in 1..MaxGoals : MarkComplete(n)
  \/ \E userId \in Users, period \in Periods, now \in Nows :
       GenerateSummary(userId, period, now, MaxArgumentCalls)

SpecArguments == Init /\ [][NextArguments]_vars

(***************************************************************************)
(* Mixed shooting: sessions of one day that report a free-throw figure or   *)
(* a three-point figure, some of them 0.                                    *)
(***************************************************************************)
MaxMixedSessions == 3

MixedSessionInputs ==
  { TrainingSession(March(28), 60, Undefined), TrainingSession(March(28), 70, Undefined),
    TrainingSession(March(28), 0, Undefined),  TrainingSession(March(28), Undefined, 30),
    TrainingSession(March(28), Undefined, 0) }

NextMixedShooting ==
  \/ \E s \in MixedSessionInputs : AddSession(s, MaxMixedSessions)
  \/ \E p \in Periods, n \in Nows : Generate(p, n)

SpecMixedShooting == Init /\ [][NextMixedShooting]_vars

(***************************************************************************)
(* Renders: games and sessions are stored, the Dashboard mounts and         *)
(* renders again.                                                           *)
(***************************************************************************)
MaxRenderGames == 3

MaxRenderSessions == 2

NextRender ==
  \/ \E g \in BoardGameInputs : AddGame(g, MaxRenderGames)
  \/ \E s \in SessionInputs : AddSession(s, MaxRenderSessions)
  \/ Mount
  \/ Render

SpecRender == Init /\ [][NextRender]_vars

(***************************************************************************)
(* Loading: the app is loaded on a path with or without a stored token,     *)
(* initAuth runs, the visitor follows links and logs out.                   *)
(***************************************************************************)
Tokens == {"none", "valid", "invalid"}

NextAuth ==
  \/ \E token \in Tokens, path \in Paths, serverProfile \in BOOLEAN :
       LoadApp(token, path, serverProfile)
  \/ InitAuth
  \/ MeResolves
  \/ MeRejects
  \/ ProfileSettles
  \/ \E path \in Paths : Navigate(path)
  \/ Logout

SpecAuth == Init /\ [][NextAuth]_vars

(***************************************************************************)
(* Properties.  They read the latest call: its period games and sessions    *)
(* are what the call's filter kept of the stores; sums and means of the     *)
(* integer fields are compared exactly, by cross-multiplication.            *)
(***************************************************************************)
Called == last # <<>>

Result == last[1].result

Start == periodStart(last[1].period, last[1].now)

PeriodGames == PeriodFilter(games, Start)

PeriodSessions == PeriodFilter(sessions, Start)

Entries(metric) == SelectSeq(Result.improvements, LAMBDA i : i.metric = metric)

Count(seq, x) == Cardinality({n \in 1..Len(seq) : seq[n] = x})

AbsInt(n) == IF n < 0 THEN -n ELSE n

\* the records are dated strictly later one after the other
Ascending(arr) ==
  \A n \in 1..(Len(arr) - 1) : ParseDate(arr[n].date) < ParseDate(arr[n + 1].date)

\* the floor(n/2) earliest and the ceil(n/2) latest records of an ascending list
EarlierHalf(arr) == SubSeq(arr, 1, Len(arr) \div 2)

LaterHalf(arr) == SubSeq(arr, (Len(arr) \div 2) + 1, Len(arr))

\* mean points of the later half exceed those of the earlier half by more than 5 %
GainOverFivePercent(arr) ==
  LET es == Sum(PointsOf(EarlierHalf(arr)))
      ls == Sum(PointsOf(LaterHalf(arr)))
      m  == Len(EarlierHalf(arr))
      k  == Len(LaterHalf(arr))
  IN  es > 0 /\ ((ls * m) - (es * k)) * 100 > 5 * es * k

\* C1: period games in ascending date order whose later half averages more than
\* 5 % above the earlier half give exactly one 'Points Per Game' entry, and its
\* change is positive.
C1_AscendingGainReportedPositive ==
  (Called /\ Len(PeriodGames) >= 2 /\ Ascending(PeriodGames) /\ GainOverFivePercent(PeriodGames))
    => /\ Len(Entries("Points Per Game")) = 1
       /\ Entries("Points Per Game")[1].change.k = "fin"
       /\ Entries("Points Per Game")[1].change.v > 0

\* C2: of n period games in ascending date order the comparison takes the
\* ceil(n/2) latest as its recent half and the floor(n/2) earliest as its older
\* half.
C2_RecentHalfIsTheLatest ==
  (Called /\ Len(PeriodGames) >= 2 /\ Ascending(PeriodGames))
    => /\ RecentHalf(PeriodGames) = LaterHalf(PeriodGames)
       /\ OlderHalf(PeriodGames) = EarlierHalf(PeriodGames)

\* C3: with at least two period games whose older half has mean points 0 there is
\* no 'Points Per Game' entry, and no improvements entry ever carries a change
\* that is NaN or infinite.
C3_ZeroOlderMeanGuarded ==
  Called =>
    /\ (Len(PeriodGames) >= 2 /\ Sum(PointsOf(OlderHalf(PeriodGames))) = 0)
         => Entries("Points Per Game") = <<>>
    /\ \A n \in 1..Len(Result.improvements) : Result.improvements[n].change.k = "fin"

\* the shooting sessions of the call, and the number of records of a half that
\* carry freeThrowPercentage
Shooting == ShootingSessions(PeriodSessions)

CarriesFT(s) == s.metrics.freeThrowPercentage # Undefined

Carries3PT(s) == s.metrics.threePointPercentage # Undefined

FTCarriers(half) == Len(SelectSeq(half, CarriesFT))

\* C4: a trend comparison is skipped, leaving no entry for its metric, whenever
\* either of the two halves it compares contains no record that carries the
\* compared field.
C4_SkippedWhenAHalfLacksTheField ==
  Called =>
    /\ (Len(RecentHalf(PeriodGames)) = 0 \/ Len(OlderHalf(PeriodGames)) = 0)
         => Entries("Points Per Game") = <<>>
    /\ (FTCarriers(RecentHalf(Shooting)) = 0 \/ FTCarriers(OlderHalf(Shooting)) = 0)
         => Entries("Free Throw %") = <<>>

\* C4 as stated: the comparison is skipped whenever either half contains fewer
\* than two records that carry the compared field.
C4_SkippedBelowTwoPerHalf ==
  Called =>
    /\ (Len(RecentHalf(PeriodGames)) < 2 \/ Len(OlderHalf(PeriodGames)) < 2)
         => Entries("Points Per Game") = <<>>
    /\ (FTCarriers(RecentHalf(Shooting)) < 2 \/ FTCarriers(OlderHalf(Shooting)) < 2)
         => Entries("Free Throw %") = <<>>

\* a call over two shooting sessions of which only the first carries a free-throw
\* figure, which reports no free-throw trend
C4_Witness ==
  /\ Called
  /\ Len(Shooting) >= 2
  /\ FTCarriers(RecentHalf(Shooting)) > 0
  /\ FTCarriers(OlderHalf(Shooting)) = 0
  /\ Entries("Free Throw %") = <<>>

\* the exact free-throw sums and counts of the two halves the comparison forms
FTSum(half) == Sum(FTOf(SelectSeq(half, HasFT)))

FTCount(half) == Len(SelectSeq(half, HasFT))

\* C5: an entry is emitted only when its delta strictly exceeds the threshold in
\* absolute value: more than 5 (percent, relative) for 'Points Per Game', more
\* than 3 (points, absolute) for 'Free Throw %'; a delta equal to the threshold
\* yields no entry.
C5_EntryOnlyAboveThreshold ==
  Called =>
    /\ (Entries("Points Per Game") # <<>> /\ Sum(PointsOf(OlderHalf(PeriodGames))) > 0)
         => LET rs == Sum(PointsOf(RecentHalf(PeriodGames)))
                os == Sum(PointsOf(OlderHalf(PeriodGames)))
                k  == Len(RecentHalf(PeriodGames))
                m  == Len(OlderHalf(PeriodGames))
            IN  AbsInt((rs * m) - (os * k)) * 100 > 5 * os * k
    /\ Entries("Free Throw %") # <<>>
         => LET rs == FTSum(RecentHalf(Shooting))
                os == FTSum(OlderHalf(Shooting))
                k  == FTCount(RecentHalf(Shooting))
                m  == FTCount(OlderHalf(Shooting))
            IN  AbsInt((rs * m) - (os * k)) > 3 * k * m

\* an entry whose rounded change is above 0
ChangeAboveZero(i) == (i.change.k = "fin" /\ i.change.v > 0) \/ (i.change.k = "inf" /\ i.change.v > 0)

SomeGain == \E n \in 1..Len(Result.improvements) : ChangeAboveZero(Result.improvements[n])

\* C6: the motivational message is the 'great progress' one if some improvements
\* entry has a positive change, otherwise the 'consistency' one if the period
\* games or the period sessions are non-empty, otherwise the 'get started' one.
C6_MessageByPriority ==
  Called =>
    Result.motivationalMessage =
      IF SomeGain THEN MsgProgress
      ELSE IF PeriodGames # <<>> \/ PeriodSessions # <<>> THEN MsgConsistency
      ELSE MsgGetStarted

\* a call that reports a decline only and answers with the 'consistency' message
C6_Witness ==
  /\ Called
  /\ Result.improvements # <<>>
  /\ ~SomeGain
  /\ Result.motivationalMessage = MsgConsistency

\* the record's date lies in the window from the period start to the clock reading
InWindow(r) == Start <= ParseDate(r.date) /\ ParseDate(r.date) <= NowTime(last[1].now)

\* C7: when no game and no session falls inside the period window the call
\* returns no insights, no improvements, no focus areas and the 'get started'
\* message.
C7_NothingInWindowGetStarted ==
  (/\ Called
   /\ \A n \in 1..Len(games) : ~InWindow(games[n])
   /\ \A n \in 1..Len(sessions) : ~InWindow(sessions[n]))
    => /\ Result.insights = <<>>
       /\ Result.improvements = <<>>
       /\ Result.focusAreas = <<>>
       /\ Result.motivationalMessage = MsgGetStarted

\* C8: over the period games the ball-handling area is added (once) iff the mean
\* turnovers exceed 3 and the playmaking area (once) iff the mean assists are
\* below 2, each independently of the other; neither is added without period
\* games.
C8_GameFocusAreasByMeans ==
  Called =>
    LET n == Len(PeriodGames)
    IN  /\ Count(Result.focusAreas, BallHandling) =
             (IF n > 0 /\ Sum(TurnoversOf(PeriodGames)) > 3 * n THEN 1 ELSE 0)
        /\ Count(Result.focusAreas, Playmaking) =
             (IF n > 0 /\ Sum(AssistsOf(PeriodGames)) < 2 * n THEN 1 ELSE 0)

\* a call over period games averaging exactly 3 turnovers and below 2 assists:
\* playmaking is advised, ball handling is not
C8_Witness ==
  /\ Called
  /\ Len(PeriodGames) >= 2
  /\ Sum(TurnoversOf(PeriodGames)) = 3 * Len(PeriodGames)
  /\ Count(Result.focusAreas, BallHandling) = 0
  /\ Count(Result.focusAreas, Playmaking) = 1

\* C9: the three-point area is added iff at least one period session reports
\* threePointPercentage and the mean over exactly the reporting sessions is
\* below 35.
C9_ThreePointAreaByMean ==
  Called =>
    LET reporting == SelectSeq(PeriodSessions, Carries3PT)
    IN  (Count(Result.focusAreas, ThreePointShooting) > 0)
          <=> (Len(reporting) > 0 /\ Sum(ThreePTOf(reporting)) < 35 * Len(reporting))

\* C10: when no period session carries freeThrowPercentage there is no
\* 'Free Throw %' entry.
C10_NoFreeThrowFigureNoEntry ==
  (Called /\ \A n \in 1..Len(PeriodSessions) : ~CarriesFT(PeriodSessions[n]))
    => Entries("Free Throw %") = <<>>

\* a call over two period sessions that carry three-point figures only
C10_Witness ==
  /\ Called
  /\ Len(PeriodSessions) >= 2
  /\ \A n \in 1..Len(PeriodSessions) :
       ~CarriesFT(PeriodSessions[n]) /\ Carries3PT(PeriodSessions[n])
  /\ Entries("Free Throw %") = <<>>

GamesCountTexts == {"You played N game", "You played N games"}

SessionsCountTexts == {"You completed N training session", "You completed N training sessions"}

\* C11: the insights list holds a games-count sentence followed by a mean-points
\* sentence iff the period games are non-empty, then a sessions-count sentence
\* iff the period sessions are non-empty, and nothing else.
C11_NarrativeByNonEmptiness ==
  Called =>
    LET g == IF PeriodGames # <<>> THEN 2 ELSE 0
        s == IF PeriodSessions # <<>> THEN 1 ELSE 0
    IN  /\ Len(Result.insights) = g + s
        /\ g = 2 => /\ Result.insights[1].text \in GamesCountTexts
                    /\ Result.insights[1].n = Len(PeriodGames)
                    /\ Result.insights[2].text = "You averaged N points per game"
        /\ s = 1 => /\ Result.insights[g + 1].text \in SessionsCountTexts
                    /\ Result.insights[g + 1].n = Len(PeriodSessions)

\* a call with period games and without period sessions: two sentences
C11_Witness ==
  /\ Called
  /\ PeriodGames # <<>>
  /\ PeriodSessions = <<>>
  /\ Len(Result.insights) = 2

\* the valid-dated records of a store dated at or after an instant
DatedFrom(arr, start) ==
  SelectSeq(arr, LAMBDA r : IsValidDate(r.date) /\ ParseDate(r.date) >= start)

\* the evaluation time less one calendar month, the day of the month clamped to
\* the last day of that month
ClampedMonthAgo(now) ==
  LET ym  == IF now.month = 0 THEN now.y - 1 ELSE now.y
      mn  == IF now.month = 0 THEN 11 ELSE now.month - 1
      day == IF now.d > DaysInMonth(ym, mn) THEN DaysInMonth(ym, mn) ELSE now.d
  IN  (MakeDay(ym, mn, day) * 24) + now.h

\* C12: the monthly window starts at the evaluation time less one calendar month,
\* clamped to the last valid day of the preceding month, and the records from
\* that instant on are the period records.
C12_MonthlyStartClamped ==
  (Called /\ last[1].period = "monthly")
    => /\ Start = ClampedMonthAgo(last[1].now)
       /\ PeriodGames = DatedFrom(games, ClampedMonthAgo(last[1].now))
       /\ PeriodSessions = DatedFrom(sessions, ClampedMonthAgo(last[1].now))

\* C13: the weekly window starts exactly 7 days (168 hours) before the evaluation
\* time, whatever the day of the month, and the records from that instant on
\* are the period records.
C13_WeeklyStartSevenDaysBack ==
  (Called /\ last[1].period = "weekly")
    => /\ Start = NowTime(last[1].now) - (7 * 24)
       /\ PeriodGames = DatedFrom(games, NowTime(last[1].now) - (7 * 24))
       /\ PeriodSessions = DatedFrom(sessions, NowTime(last[1].now) - (7 * 24))

\* a weekly call in the first week of a month that keeps a game of the month before
C13_Witness ==
  /\ Called
  /\ last[1].period = "weekly"
  /\ last[1].now.d <= 7
  /\ \E n \in 1..Len(PeriodGames) :
       /\ ParseDate(PeriodGames[n].date) < NowTime(last[1].now)
       /\ PeriodGames[n].date.m - 1 # last[1].now.month

\* C14: the period filter keeps exactly the records dated from the window start
\* to the evaluation time; a record dated after the evaluation time is never
\* kept.
C14_FilterBoundedByNow ==
  Called =>
    /\ PeriodGames = SelectSeq(games, InWindow)
    /\ PeriodSessions = SelectSeq(sessions, InWindow)

\* the returned object reports the record as an invalid one
Reported(r) ==
  /\ "errors" \in DOMAIN Result
  /\ \E n \in 1..Len(Result.errors) : Result.errors[n].record = r

\* C15: a game whose date is missing or unparsable is reported to the caller as an
\* InvalidRecordError naming it and is left out of the computation, which goes on
\* over the other records.
C15_InvalidRecordReported ==
  Called =>
    \A n \in 1..Len(games) :
      ~IsValidDate(games[n].date)
        => /\ Reported(games[n])
           /\ \A k \in 1..Len(PeriodGames) : PeriodGames[k] # games[n]

Sections == {"insights", "improvements", "focusAreas", "motivationalMessage"}

EmptyMetrics(s) == ~CarriesFT(s) /\ ~Carries3PT(s)

\* C16: for empty and partial input the call returns the complete result of four
\* sections with one of the three messages, and a section is empty where its data
\* is insufficient: no points trend from fewer than two period games, no game
\* focus area without period games, no free-throw trend and no three-point area
\* when every period session has an empty metrics mapping.
C16_CompleteResultOnPartialInput ==
  Called =>
    /\ DOMAIN Result = Sections
    /\ Result.motivationalMessage \in {MsgProgress, MsgConsistency, MsgGetStarted}
    /\ Len(PeriodGames) < 2 => Entries("Points Per Game") = <<>>
    /\ PeriodGames = <<>>
         => Count(Result.focusAreas, BallHandling) + Count(Result.focusAreas, Playmaking) = 0
    /\ (\A n \in 1..Len(PeriodSessions) : EmptyMetrics(PeriodSessions[n]))
         => /\ Entries("Free Throw %") = <<>>
            /\ Count(Result.focusAreas, ThreePointShooting) = 0

\* a call over a single period game and a period session without metrics
C16_Witness ==
  /\ Called
  /\ Len(PeriodGames) = 1
  /\ Len(PeriodSessions) = 1
  /\ EmptyMetrics(PeriodSessions[1])
  /\ Result.improvements = <<>>
  /\ Len(Result.insights) = 3

Rendered == board # <<>>

Board == board[1]

\* a record dated within the 7 days that end at the rendering's clock reading
InTrailingWeek(r) ==
  /\ IsValidDate(r.date)
  /\ NowTime(Board.now) - (7 * 24) <= ParseDate(r.date)
  /\ ParseDate(r.date) <= NowTime(Board.now)

MinInt(a, b) == IF a < b THEN a ELSE b

\* C17: the activity score is min(15 * k, 100), k the number of games and sessions
\* dated within the trailing 7 days of the evaluation time.
C17_ActivityScoreOfTrailingWeek ==
  Rendered =>
    LET k == Len(SelectSeq(games, InTrailingWeek)) + Len(SelectSeq(sessions, InTrailingWeek))
    IN  Board.activityScore = MinInt(15 * k, 100)

\* C18: the readiness score is min(round((meanPoints / 20) * 100), 100) for the
\* exact mean of the points of all games, and 0 without games.
C18_ReadinessOfExactMean ==
  Rendered =>
    LET n   == Len(games)
        sum == Sum(PointsOf(games))
    IN  Board.readinessScore = IF n = 0 THEN 0 ELSE MinInt(((10 * sum) + n) \div (2 * n), 100)

\* the first position of the highest points
FirstOfBest(gs) ==
  CHOOSE n \in 1..Len(gs) :
    /\ \A k \in 1..Len(gs) : gs[k].points <= gs[n].points
    /\ \A k \in 1..(n - 1) : gs[k].points < gs[n].points

ZeroAverage(avg) == avg.form = "0" /\ avg.tenths = 0

\* C20: without games the season average of each stat is 0, on the dashboard and
\* in the shared report, and the personal best is null.
C20_EmptySeason ==
  (Rendered /\ games = <<>>)
    => /\ ZeroAverage(Board.average.points) /\ ZeroAverage(Board.average.assists)
       /\ ZeroAverage(Board.sharedAverage.points) /\ ZeroAverage(Board.sharedAverage.assists)
       /\ Board.personalBest = Null

\* a rendering without games (sessions may be stored)
C20_Witness ==
  /\ Rendered
  /\ games = <<>>
  /\ sessions # <<>>
  /\ Board.personalBest = Null
  /\ Board.readinessScore = 0

(***************************************************************************)
(* Summaries and the calls behind them.                                     *)
(***************************************************************************)
\* The summary the k-th generation built
Generated(k) ==
  AISummary(k, calls[k].userId, calls[k].period, calls[k].now, calls[k].result)

\* C21: every generation by a logged-in user adds exactly one summary and
\* leaves the stored ones as they are: after k generations the store holds the
\* k summaries generated, each as it was built and in the order of generation,
\* none replaced, merged or dropped, also when owner and period repeat
C21_OneSummaryPerGeneration ==
  /\ Len(summaries) = Len(calls)
  /\ \A k \in 1..Len(summaries) : summaries[k] = Generated(k)

\* two stored summaries of one owner and period, generated from different records
C21_Witness ==
  \E i, j \in 1..Len(summaries) :
    /\ i < j
    /\ summaries[i].userId = summaries[j].userId
    /\ summaries[i].period = summaries[j].period
    /\ summaries[i].insights # summaries[j].insights
    /\ summaries[j].improvements # <<>>

\* The i-th and the j-th call were given equal games, sessions and period at
\* the same evaluation time
SameRecords(i, j) ==
  /\ calls[i].games = calls[j].games
  /\ calls[i].sessions = calls[j].sessions
  /\ calls[i].period = calls[j].period
  /\ calls[i].now = calls[j].now

EntriesOn(ss, metric) ==
  SelectSeq(generateInsights(games, ss, goals, last[1].period, last[1].now).improvements,
            LAMBDA e : e.metric = metric)

\* C24: the free-throw comparison works on the period sessions that carry
\* freeThrowPercentage only: the sessions lacking the field move neither the
\* split nor the means nor the count, so the call reports the free-throw
\* entries it reports on the carrying sessions alone
C24_FreeThrowTrendOfCarriersAlone ==
  Called => Entries("Free Throw %") = EntriesOn(SelectSeq(sessions, CarriesFT), "Free Throw %")

\* the number of records of a sequence of sessions that carry threePointPercentage
ThreePTCarriers(ss) == Len(SelectSeq(ss, Carries3PT))

\* the free-throw figures of the carrying sessions of a half, 0 included
FTFigures(half) ==
  LET carrying == SelectSeq(half, CarriesFT)
  IN  [n \in 1..Len(carrying) |-> carrying[n].metrics.freeThrowPercentage]

\* C28: a figure of 0 is a figure.  When every period session reports
\* threePointPercentage = 0 the three-point area is given, and when every period
\* session carries a free-throw figure and the means of the two halves, zeros
\* included, lie more than 3 points apart, the free-throw entry is reported
C28_ZeroFigureCounted ==
  Called =>
    /\ (PeriodSessions # <<>>
          /\ \A n \in 1..Len(PeriodSessions) : PeriodSessions[n].metrics.threePointPercentage = 0)
         => Count(Result.focusAreas, ThreePointShooting) > 0
    /\ (Len(PeriodSessions) >= 2 /\ FTCarriers(PeriodSessions) = Len(PeriodSessions))
         => LET rs == Sum(FTFigures(RecentHalf(PeriodSessions)))
                os == Sum(FTFigures(OlderHalf(PeriodSessions)))
                kr == Len(RecentHalf(PeriodSessions))
                ko == Len(OlderHalf(PeriodSessions))
            IN  AbsInt(rs * ko - os * kr) > 3 * kr * ko => Entries("Free Throw %") # <<>>

(***************************************************************************)
(* The filter and the order of the records.                                 *)
(***************************************************************************)
\* C25: the period filter is idempotent: applied with the same window to the
\* games or sessions it kept, it returns them all, in the same order
C25_FilterIdempotent ==
  Called =>
    /\ PeriodFilter(PeriodGames, Start) = PeriodGames
    /\ PeriodFilter(PeriodSessions, Start) = PeriodSessions

\* a call that kept one of two games and two different sessions
C25_Witness ==
  /\ Called
  /\ Len(games) = 2 /\ Len(PeriodGames) = 1
  /\ Len(PeriodSessions) = 2 /\ PeriodSessions[1] # PeriodSessions[2]

\* C26: the improvements depend on the dates and values of the records, not on
\* the order they are supplied in: they are ordered by date before the split,
\* so the games in the opposite order give the same entries
C26_OrderOfSupplyIrrelevant ==
  Called =>
    generateInsights(Reverse(games), sessions, goals, last[1].period, last[1].now).improvements
      = Result.improvements

(***************************************************************************)
(* The arrays the Dashboard holds.                                          *)
(***************************************************************************)
Mounted == view # <<>>

\* C27: rendering leaves the games and sessions the Dashboard holds as they
\* were loaded, order included, so after any number of renders the personal
\* best is the one of the loaded games: the first of the top-scoring games
C27_RenderLeavesHeldRecords ==
  Mounted =>
    /\ view[1].games = view[1].loaded.games
    /\ view[1].sessions = view[1].loaded.sessions
    /\ view[1].personalBest = getPersonalBest(view[1].loaded.games)

(***************************************************************************)
(* The protected routes while the session is being restored.                *)
(***************************************************************************)
Loaded == auth # <<>>

\* C29: with a valid token stored, ProtectedRoute does not navigate to the
\* landing page '/' while auth initialisation is still in flight (isLoading)
C29_NoLandingRedirectWhileLoading ==
  (Loaded /\ auth[1].redirect.to = "/" /\ auth[1].redirect.token = "valid")
    => ~auth[1].redirect.isLoading

====
